---- MODULE Spec2Model ----
(***************************************************************************)
(* Model of the UDP senders of this repository.  The control loop of       *)
(* client_tahoe.main is a state machine over the mode variable `state`;    *)
(* every iteration of its while loop is one action below.  Python floats   *)
(* (cwnd, estimated_rtt, dev_rtt, timeout) are modelled as exact rationals *)
(* [n |-> numerator, d |-> denominator] in lowest terms; time.time() is an *)
(* integer clock `now` that advances while the client blocks in recvfrom.  *)
(***************************************************************************)
EXTENDS Integers, Sequences, FiniteSets, TLC

(* ---------------- bounds of the model ---------------- *)
\* largest number of payload chunks the data source holds
MaxChunks == 8
\* largest number of datagrams the channel delivers to the client in a session
MaxAcks == 4
\* largest number of receive timeouts in a session
MaxTimeouts == 2
\* largest number of ACKs for already-acknowledged segments on the fair channel
MaxStale == 1

(* ---------------- exact rational arithmetic (Python float) ---------------- *)
\* The operations are functions, so that an argument is evaluated once.
Rats == [n : Int, d : Nat \ {0}]

\* greatest common divisor, by Euclid's algorithm
GCD[a \in Nat, b \in Nat] == IF b = 0 THEN a ELSE GCD[b, a % b]

Abs(x) == IF x < 0 THEN -x ELSE x

\* n / d in lowest terms
Norm[n \in Int, d \in Nat \ {0}] ==
    LET g == GCD[Abs(n), d] IN [n |-> n \div g, d |-> d \div g]

Rat(i) == [n |-> i, d |-> 1]

RAdd[a \in Rats, b \in Rats] ==
    LET g == GCD[a.d, b.d]
    IN  Norm[a.n * (b.d \div g) + b.n * (a.d \div g), a.d * (b.d \div g)]

RNeg(a) == [n |-> -a.n, d |-> a.d]

RSub[a \in Rats, b \in Rats] == RAdd[a, RNeg(b)]

RMul[a \in Rats, b \in Rats] ==
    LET g1 == GCD[Abs(a.n), b.d]
        g2 == GCD[Abs(b.n), a.d]
    IN  Norm[(a.n \div g1) * (b.n \div g2), (a.d \div g2) * (b.d \div g1)]

RAbs(a) == [n |-> Abs(a.n), d |-> a.d]

\* 1 / a, for a > 0
RInv(a) == [n |-> a.d, d |-> a.n]

\* a <= b in place of a < b
RLessOrEqual(a, b) == a.n * b.d <= b.n * a.d

RLess(a, b) == a.n * b.d < b.n * a.d

RGeq(a, b) == ~RLess(a, b)

\* a // 2
FloorHalf(a) == a.n \div (2 * a.d)

(* ---------------- framing: struct.pack / struct.unpack(">II") ---------------- *)
\* 0xBAADCAFE as its four big-endian bytes
magic == <<186, 173, 202, 254>>

\* the bytes of struct.pack("<I", k): least significant byte first
U32LittleEndian(k) ==
    << k % 256, (k \div 256) % 256, (k \div 65536) % 256, (k \div 16777216) % 256 >>

\* the four big-endian bytes of an unsigned 32-bit integer
U32(k) == << (k \div 16777216) % 256, (k \div 65536) % 256, (k \div 256) % 256, k % 256 >>

\* struct.pack(">II", magic, k)
Pack(k) == magic \o U32(k)

\* the integer held in bytes i..i+3 of b
ReadU32(b, i) == ((b[i] * 256 + b[i + 1]) * 256 + b[i + 2]) * 256 + b[i + 3]

\* struct.unpack(">II", b) raises struct.error unless b has exactly 8 bytes
UnpackFails(b) == Len(b) /= 8

\* the second integer of struct.unpack(">II", b)
UnpackSecond(b) == ReadU32(b, 5)

\* sequence number in the header of a data packet
PktSeqno(pkt) == ReadU32(pkt, 5)

\* payload of a data packet
PktBody(pkt) == SubSeq(pkt, 9, Len(pkt))

(* ---------------- data source ---------------- *)
None == <<>>

\* payload bytes of chunk k
Payload(k) == <<100 + k>>

\* datasource.wait_for_data(k) of a source holding chunks 0..nc-1
wait_for_data(nc, k) == IF k < nc THEN Payload(k) ELSE None

(* ---------------- RTT estimator ---------------- *)
estimated_rtt_calc(sample_rtt, est) ==
    LET a == [n |-> 1, d |-> 8]
    IN  RAdd[RMul[a, sample_rtt], RMul[RSub[Rat(1), a], est]]

dev_rtt_calc(sample_rtt, est, dev) ==
    LET b == [n |-> 1, d |-> 4]
    IN  RAdd[RMul[b, RAbs(RSub[sample_rtt, est])], RMul[RSub[Rat(1), b], dev]]

(* ---------------- the outstanding dictionary (insertion ordered) ---------------- *)
\* outstanding is a sequence of [k |-> seqno, pkt |-> bytes] in insertion order
Keys(o) == {o[i].k : i \in 1..Len(o)}

\* outstanding[key] = pkt for a new key: appended at the end
DictPut(o, key, pkt) == Append(o, [k |-> key, pkt |-> pkt])

\* del(outstanding[...]) of the oldest entry, whatever the key
DictDelOldest(o, key) == Tail(o)

\* a del(outstanding[key]) that leaves the entry in the dictionary
DictDelNothing(o, key) == o

\* del(outstanding[key])
DictDel(o, key) == SelectSeq(o, LAMBDA e : e.k /= key)

\* the packet stored last, whatever the key
DictGetNewest(o, key) == o[Len(o)].pkt

\* outstanding[key]
DictGet(o, key) == (CHOOSE e \in {o[i] : i \in 1..Len(o)} : e.k = key).pkt

\* the newest key of the dictionary, not the oldest
NextIterLast(o, dflt) == IF Len(o) > 0 THEN o[Len(o)].k ELSE dflt

\* the default, whatever the dictionary holds
NextIterDefault(o, dflt) == dflt

\* next(iter(outstanding), dflt)
NextIter(o, dflt) == IF Len(o) > 0 THEN o[1].k ELSE dflt

(* ---------------- state of client_tahoe.main ---------------- *)
VARIABLES
    numChunks,      \* chunks held by the data source
    pc,             \* "loop" | "done" (loop left, lines 202-206) | "aborted" (uncaught exception)
    error,          \* name of the uncaught exception, or "none"
    state, seqno, desired_ackno, body, have_more_data, outstanding,
    send_times, cwnd, ssthresh, timeout, estimated_rtt, dev_rtt,
    now,            \* time.time() - start
    wire,           \* datagrams handed to s.sendto, in order
    rcvd,           \* datagrams returned by s.recvfrom, in order
    tracelog,       \* records written with trace.write, in order
    queried,        \* arguments of datasource.wait_for_data, in order
    acked,          \* ACK numbers that reached line 143
    nTimeouts,      \* number of receive timeouts so far
    args,           \* the arguments n and t of main that the loop still reads
    tSend,          \* time of the last send (0 before the first)
    gaps            \* values of seqno at which client_burst1 slept between bursts

vars == <<numChunks, pc, error, state, seqno, desired_ackno, body, have_more_data,
          outstanding, send_times, cwnd, ssthresh, timeout, estimated_rtt, dev_rtt,
          now, wire, rcvd, tracelog, queried, acked, nTimeouts, args, tSend, gaps>>

\* main(host, port, n, t) up to the while loop, with a source of nc chunks
Setup(nc, n, t) ==
    /\ numChunks = nc
    /\ pc = "loop"
    /\ error = "none"
    /\ timeout = Rat(t)
    /\ estimated_rtt = Rat(t)
    /\ dev_rtt = Rat(0)
    /\ send_times = <<>>
    /\ cwnd = Rat(1)
    /\ ssthresh = n
    /\ seqno = 0
    /\ desired_ackno = 0
    /\ body = None
    /\ have_more_data = TRUE
    /\ outstanding = <<>>
    /\ state = 0
    /\ now = 0
    /\ wire = <<>>
    /\ rcvd = <<>>
    /\ tracelog = <<>>
    /\ queried = <<>>
    /\ acked = {}
    /\ nTimeouts = 0
    \* n and t are copied into ssthresh and timeout and never read again
    /\ args = [n |-> 0, t |-> 0]
    /\ tSend = 0
    /\ gaps = <<>>

\* command-line arguments n (initial ssthresh): slow start is skipped, or lasts
\* until cwnd = 3
NArgs == {1, 3}

\* command-line arguments t (initial timeout, in clock ticks)
TArgs == {2}

Init == \E nc \in 0..MaxChunks, n \in NArgs, t \in TArgs : Setup(nc, n, t)

\* the loop condition with "and" in place of "or"
LoopCondAnd == have_more_data /\ Len(outstanding) > 0

\* the condition of the while loop
LoopCond == have_more_data \/ Len(outstanding) > 0

Running == pc = "loop" /\ LoopCond

\* state 0: wait for data to be available to send
FillWindow ==
    /\ Running /\ state = 0
    /\ queried' = Append(queried, seqno)
    /\ body' = wait_for_data(numChunks, seqno)
    /\ IF wait_for_data(numChunks, seqno) = None
         THEN have_more_data' = FALSE /\ state' = 2
         ELSE have_more_data' = have_more_data /\ state' = 1
    /\ UNCHANGED <<numChunks, pc, error, seqno, desired_ackno, outstanding, send_times,
                   cwnd, ssthresh, timeout, estimated_rtt, dev_rtt, now, wire, rcvd,
                   tracelog, acked, nTimeouts, args, tSend, gaps>>

\* state 1: send one data packet
Send ==
    /\ Running /\ state = 1
    /\ LET pkt == Pack(seqno) \o body
       IN  /\ tSend' = now
           /\ send_times' = [k \in DOMAIN send_times \cup {seqno} |->
                                IF k = seqno THEN now ELSE send_times[k]]
           /\ wire' = Append(wire, pkt)
           /\ tracelog' = Append(tracelog, <<seqno, now, 0, 0>>)
           /\ outstanding' = DictPut(outstanding, seqno, pkt)
    /\ seqno' = seqno + 1
    /\ state' = IF RGeq(Rat(Len(outstanding) + 1), cwnd) THEN 2 ELSE 0
    /\ UNCHANGED <<numChunks, pc, error, desired_ackno, body, have_more_data, cwnd,
                   ssthresh, timeout, estimated_rtt, dev_rtt, now, rcvd, queried,
                   acked, nTimeouts, args, gaps>>

\* an uncaught exception leaves main
Raise(name) ==
    /\ pc' = "aborted"
    /\ error' = name

\* state 2, recvfrom returned the datagram ack after d ticks
RecvAck(ack, d) ==
    /\ Running /\ state = 2
    /\ Len(rcvd) < MaxAcks
    /\ rcvd' = Append(rcvd, ack)
    /\ now' = now + d
    /\ UNCHANGED <<numChunks, seqno, body, have_more_data, send_times, ssthresh,
                   wire, queried, nTimeouts, args, tSend, gaps>>
    /\ IF UnpackFails(ack)
         THEN /\ Raise("struct.error")
              /\ UNCHANGED <<state, desired_ackno, outstanding, cwnd, timeout,
                             estimated_rtt, dev_rtt, tracelog, acked>>
         ELSE LET ackno == UnpackSecond(ack)
                  tRecv == now + d
              IN  IF ackno \notin DOMAIN send_times
                    THEN /\ Raise("KeyError")
                         /\ UNCHANGED <<state, desired_ackno, outstanding, cwnd, timeout,
                                        estimated_rtt, dev_rtt, tracelog, acked>>
                    ELSE LET sample_rtt == Rat(tRecv - send_times[ackno])
                             est == estimated_rtt_calc(sample_rtt, estimated_rtt)
                             dev == dev_rtt_calc(sample_rtt, est, dev_rtt)
                             left == IF ackno \in Keys(outstanding)
                                       THEN DictDel(outstanding, ackno)
                                       ELSE outstanding
                         IN  /\ estimated_rtt' = est
                             /\ dev_rtt' = dev
                             /\ timeout' = RAdd[est, RMul[Rat(4), dev]]
                             /\ tracelog' = Append(tracelog, <<0, 0, ackno, tRecv>>)
                             /\ acked' = acked \cup {ackno}
                             /\ outstanding' = left
                             /\ IF ackno = desired_ackno
                                  THEN /\ desired_ackno' = NextIter(left, seqno)
                                       /\ cwnd' = IF RLess(cwnd, Rat(ssthresh))
                                                    THEN RAdd[cwnd, Rat(1)]
                                                    ELSE RAdd[cwnd, RInv(cwnd)]
                                       /\ state' = 0
                                  ELSE /\ UNCHANGED <<desired_ackno, cwnd>>
                                       /\ state' = IF RGeq(Rat(Len(left)), cwnd)
                                                     THEN 2 ELSE 0
                             /\ UNCHANGED <<pc, error>>

\* the timeout handler without the doubling of the stored timeout
TimeoutNoBackoff(d) ==
    /\ Running /\ state = 2
    /\ nTimeouts < MaxTimeouts
    /\ nTimeouts' = nTimeouts + 1
    /\ now' = now + d
    /\ ssthresh' = FloorHalf(cwnd)
    /\ cwnd' = Rat(1)
    /\ state' = 3
    /\ UNCHANGED <<numChunks, pc, error, seqno, desired_ackno, body, have_more_data,
                   outstanding, send_times, estimated_rtt, dev_rtt, wire, rcvd,
                   tracelog, queried, acked, args, tSend, gaps, timeout>>

\* state 2, recvfrom raised socket.timeout (or socket.error) after d ticks
Timeout(d) ==
    /\ Running /\ state = 2
    /\ nTimeouts < MaxTimeouts
    /\ nTimeouts' = nTimeouts + 1
    /\ now' = now + d
    /\ ssthresh' = FloorHalf(cwnd)
    /\ cwnd' = Rat(1)
    /\ timeout' = RMul[timeout, Rat(2)]
    /\ state' = 3
    /\ UNCHANGED <<numChunks, pc, error, seqno, desired_ackno, body, have_more_data,
                   outstanding, send_times, estimated_rtt, dev_rtt, wire, rcvd,
                   tracelog, queried, acked, args, tSend, gaps>>

\* state 3: resend the packet with desired_ackno
Retransmit ==
    /\ Running /\ state = 3
    /\ IF desired_ackno \notin Keys(outstanding)
         THEN /\ Raise("KeyError")
              /\ UNCHANGED <<state, send_times, wire, tracelog, tSend>>
         ELSE LET pkt == DictGet(outstanding, desired_ackno)
              IN  /\ tSend' = now
                  /\ send_times' = [send_times EXCEPT ![desired_ackno] = now]
                  /\ wire' = Append(wire, pkt)
                  /\ tracelog' = Append(tracelog, <<seqno, now, 0, 0>>)
                  /\ state' = 2
                  /\ UNCHANGED <<pc, error>>
    /\ UNCHANGED <<numChunks, seqno, desired_ackno, body, have_more_data, outstanding,
                   cwnd, ssthresh, timeout, estimated_rtt, dev_rtt, now, rcvd,
                   queried, acked, nTimeouts, args, gaps>>

\* the while condition is false: main prints the summary and returns
Finish ==
    /\ pc = "loop" /\ ~LoopCond
    /\ pc' = "done"
    /\ UNCHANGED <<numChunks, error, state, seqno, desired_ackno, body, have_more_data,
                   outstanding, send_times, cwnd, ssthresh, timeout, estimated_rtt,
                   dev_rtt, now, wire, rcvd, tracelog, queried, acked, nTimeouts,
                   args, tSend, gaps>>

(* ---------------- the channel ---------------- *)
\* an ACK datagram as the server builds it
AckDatagram(a) == Pack(a)

\* ACK numbers the channel may deliver: every number sent so far and seqno, the
\* next number, which stands for all the numbers never sent (they take the same
\* path through state 2)
AckNumbers == 0..seqno

\* datagrams an unreliable channel may hand to the client: ACKs, a truncated
\* ACK and an over-long one
Datagrams ==
    {AckDatagram(a) : a \in AckNumbers}
        \cup {SubSeq(AckDatagram(0), 1, 7), AckDatagram(0) \o <<0>>}

\* time one blocking recvfrom takes, in clock ticks
Ticks == {1}

Receive == \E ack \in Datagrams, d \in Ticks : RecvAck(ack, d)

Expire == \E d \in Ticks : Timeout(d)

Next == FillWindow \/ Send \/ Receive \/ Expire \/ Retransmit \/ Finish

Spec == Init /\ [][Next]_vars

(* ---------------- a lossy but fair channel ---------------- *)
\* largest data source of the fair sessions: every segment's ACK and MaxStale
\* repeated ACKs fit in MaxAcks deliveries
FairChunks == MaxAcks - MaxStale

FairInit == \E nc \in 0..FairChunks, n \in NArgs, t \in TArgs : Setup(nc, n, t)

\* ACKs delivered so far for segments that were no longer outstanding
StaleCount == Len(rcvd) - Cardinality(acked)

\* the ACK of an outstanding segment arrives
DeliverAck(a) == \E d \in Ticks : RecvAck(AckDatagram(a), d)

FairReceive == \E a \in Keys(outstanding) : DeliverAck(a)

\* the ACK of a segment that was sent and acknowledged arrives once more
FairStale ==
    /\ StaleCount < MaxStale
    /\ \E a \in (DOMAIN send_times) \ Keys(outstanding) : DeliverAck(a)

FairNext == FillWindow \/ Send \/ FairReceive \/ FairStale \/ Expire \/ Retransmit \/ Finish

\* The loop is sequential code, so each of its steps is taken when it is enabled.
\* The channel may lose any datagram (Expire), but the ACK of the segment that is
\* resent on every timeout, desired_ackno, is delivered in the end.
FairSpec ==
    /\ FairInit /\ [][FairNext]_vars
    /\ WF_vars(FillWindow) /\ WF_vars(Send) /\ WF_vars(Retransmit) /\ WF_vars(Finish)
    /\ WF_vars(DeliverAck(desired_ackno))

(* ---------------- what the histories say ---------------- *)
\* sequence numbers of the datagrams sent so far
SentSeqnos == {PktSeqno(wire[i]) : i \in 1..Len(wire)}

\* this step is a return of recvfrom
IsReceive == Len(rcvd') = Len(rcvd) + 1

\* the datagram this step received
Received == rcvd'[Len(rcvd')]

\* this step is a receive timeout
IsTimeout == nTimeouts' = nTimeouts + 1

Max2(a, b) == IF a >= b THEN a ELSE b

\* floor of a rational
Floor(a) == a.n \div a.d

SetMin(S) == CHOOSE x \in S : \A y \in S : x <= y

(* ---------------- client_burst1.main ---------------- *)
\* the window and timer variables of client_tahoe, which the other two clients
\* do not have
tahoeVars == <<desired_ackno, outstanding, send_times, cwnd, ssthresh, timeout,
               estimated_rtt, dev_rtt, acked, nTimeouts>>

NoTahoeVars ==
    /\ desired_ackno = 0
    /\ outstanding = <<>>
    /\ send_times = <<>>
    /\ cwnd = Rat(1)
    /\ ssthresh = 0
    /\ timeout = Rat(0)
    /\ estimated_rtt = Rat(0)
    /\ dev_rtt = Rat(0)
    /\ acked = {}
    /\ nTimeouts = 0

\* client_burst1 main(host, port, n, t) up to the while loop
BurstSetup(nc, n, t) ==
    /\ numChunks = nc
    /\ pc = "loop"
    /\ error = "none"
    /\ args = [n |-> n, t |-> t]
    /\ seqno = 0
    /\ body = None
    /\ have_more_data = TRUE
    /\ state = 0
    /\ now = 0
    /\ tSend = 0
    /\ wire = <<>>
    /\ rcvd = <<>>
    /\ tracelog = <<>>
    /\ queried = <<>>
    /\ gaps = <<>>
    /\ NoTahoeVars

\* command-line arguments n (burst size) of client_burst1; 0 passes int()
BurstArgs == {0, 1, 2, 3}

BurstInit == \E nc \in 0..MaxChunks, n \in BurstArgs, t \in TArgs : BurstSetup(nc, n, t)

\* seqno is one past a multiple of n
IsBurstStartAfter(k, n) == k % n = 1 % n

\* seqno % n == 0
IsBurstStart(k, n) == k % n = 0

\* state 0: wait for data; a burst starts at every multiple of n
BurstWait ==
    /\ pc = "loop" /\ have_more_data /\ state = 0
    /\ queried' = Append(queried, seqno)
    /\ body' = wait_for_data(numChunks, seqno)
    /\ IF wait_for_data(numChunks, seqno) = None
         THEN /\ have_more_data' = FALSE
              /\ UNCHANGED <<state, pc, error>>
         ELSE /\ have_more_data' = have_more_data
              /\ IF args.n = 0
                   THEN /\ Raise("ZeroDivisionError")
                        /\ state' = state
                   ELSE /\ state' = IF IsBurstStart(seqno, args.n) THEN 1 ELSE 2
                        /\ UNCHANGED <<pc, error>>
    /\ UNCHANGED <<numChunks, seqno, now, wire, rcvd, tracelog, args, tSend, gaps,
                   tahoeVars>>

\* state 1: time.sleep(t), the gap between bursts
BurstGap ==
    /\ pc = "loop" /\ have_more_data /\ state = 1
    /\ now' = now + args.t
    /\ gaps' = Append(gaps, seqno)
    /\ state' = 2
    /\ UNCHANGED <<numChunks, pc, error, seqno, body, have_more_data, wire, rcvd,
                   tracelog, queried, args, tSend, tahoeVars>>

\* state 2: send one data packet, do not wait for an ACK
BurstSend ==
    /\ pc = "loop" /\ have_more_data /\ state = 2
    /\ tSend' = now
    /\ wire' = Append(wire, Pack(seqno) \o body)
    /\ tracelog' = Append(tracelog, <<seqno, now, 0, 0>>)
    /\ seqno' = seqno + 1
    /\ state' = 0
    /\ UNCHANGED <<numChunks, pc, error, body, have_more_data, now, rcvd, queried,
                   args, gaps, tahoeVars>>

\* have_more_data is False: main prints the summary and returns
BurstFinish ==
    /\ pc = "loop" /\ ~have_more_data
    /\ pc' = "done"
    /\ UNCHANGED <<numChunks, error, state, seqno, body, have_more_data, now, wire,
                   rcvd, tracelog, queried, args, tSend, gaps, tahoeVars>>

BurstNext == BurstWait \/ BurstGap \/ BurstSend \/ BurstFinish

\* the loop is sequential code without a blocking call other than the sleep,
\* which returns: it takes its next step as long as it has one
BurstSpec == BurstInit /\ [][BurstNext]_vars /\ WF_vars(BurstNext)

(* ---------------- client_saw.main ---------------- *)
\* client_saw main(host, port) up to the while loop
SawSetup(nc) ==
    /\ numChunks = nc
    /\ pc = "loop"
    /\ error = "none"
    /\ args = [n |-> 0, t |-> 0]
    /\ seqno = 0
    /\ body = None
    /\ have_more_data = TRUE
    /\ state = 0
    /\ now = 0
    /\ tSend = 0
    /\ wire = <<>>
    /\ rcvd = <<>>
    /\ tracelog = <<>>
    /\ queried = <<>>
    /\ gaps = <<>>
    /\ NoTahoeVars

SawInit == \E nc \in 0..MaxChunks : SawSetup(nc)

\* state 0: wait for data to be available to send
SawWait ==
    /\ pc = "loop" /\ have_more_data /\ state = 0
    /\ queried' = Append(queried, seqno)
    /\ body' = wait_for_data(numChunks, seqno)
    /\ IF wait_for_data(numChunks, seqno) = None
         THEN have_more_data' = FALSE /\ state' = state
         ELSE have_more_data' = have_more_data /\ state' = 1
    /\ UNCHANGED <<numChunks, pc, error, seqno, now, wire, rcvd, tracelog, args, tSend,
                   gaps, tahoeVars>>

\* state 1 without the wait for an ACK: back to state 0
SawSendNoWait ==
    /\ pc = "loop" /\ have_more_data /\ state = 1
    /\ tSend' = now
    /\ wire' = Append(wire, Pack(seqno) \o body)
    /\ state' = 0
    /\ UNCHANGED <<numChunks, pc, error, seqno, body, have_more_data, now, rcvd,
                   tracelog, queried, args, gaps, tahoeVars>>

\* state 1: send one data packet
SawSend ==
    /\ pc = "loop" /\ have_more_data /\ state = 1
    /\ tSend' = now
    /\ wire' = Append(wire, Pack(seqno) \o body)
    /\ state' = 2
    /\ UNCHANGED <<numChunks, pc, error, seqno, body, have_more_data, now, rcvd,
                   tracelog, queried, args, gaps, tahoeVars>>

\* state 2 with a test of the ACK number: only the ACK numbered seqno counts
SawRecvMatching(ack, d) ==
    /\ pc = "loop" /\ have_more_data /\ state = 2
    /\ Len(rcvd) < MaxAcks
    /\ rcvd' = Append(rcvd, ack)
    /\ now' = now + d
    /\ IF UnpackFails(ack)
         THEN /\ Raise("struct.error")
              /\ UNCHANGED <<state, seqno, tracelog>>
         ELSE /\ IF UnpackSecond(ack) = seqno
                   THEN /\ tracelog' = Append(tracelog,
                                              <<seqno, tSend, UnpackSecond(ack), now + d>>)
                        /\ seqno' = seqno + 1
                        /\ state' = 0
                   ELSE UNCHANGED <<state, seqno, tracelog>>
              /\ UNCHANGED <<pc, error>>
    /\ UNCHANGED <<numChunks, body, have_more_data, wire, queried, args, tSend, gaps,
                   tahoeVars>>

\* state 2: recvfrom, which has no timeout, returned the datagram ack after d
\* ticks; its number is logged and otherwise ignored
SawRecv(ack, d) ==
    /\ pc = "loop" /\ have_more_data /\ state = 2
    /\ Len(rcvd) < MaxAcks
    /\ rcvd' = Append(rcvd, ack)
    /\ now' = now + d
    /\ IF UnpackFails(ack)
         THEN /\ Raise("struct.error")
              /\ UNCHANGED <<state, seqno, tracelog>>
         ELSE /\ tracelog' = Append(tracelog,
                                    <<seqno, tSend, UnpackSecond(ack), now + d>>)
              /\ seqno' = seqno + 1
              /\ state' = 0
              /\ UNCHANGED <<pc, error>>
    /\ UNCHANGED <<numChunks, body, have_more_data, wire, queried, args, tSend, gaps,
                   tahoeVars>>

\* have_more_data is False: main prints the summary and returns
SawFinish ==
    /\ pc = "loop" /\ ~have_more_data
    /\ pc' = "done"
    /\ UNCHANGED <<numChunks, error, state, seqno, body, have_more_data, now, wire,
                   rcvd, tracelog, queried, args, tSend, gaps, tahoeVars>>

\* ACK numbers the channel may deliver to client_saw: that of the segment in
\* flight, that of the segment before it (a duplicate) and the next one (never
\* sent)
SawAckNumbers == {a \in {seqno - 1, seqno, seqno + 1} : a >= 0}

\* datagrams the channel may hand to client_saw: ACKs and a truncated ACK
SawDatagrams ==
    {AckDatagram(a) : a \in SawAckNumbers} \cup {SubSeq(AckDatagram(0), 1, 7)}

SawReceive == \E ack \in SawDatagrams, d \in Ticks : SawRecv(ack, d)

SawNext == SawWait \/ SawSend \/ SawReceive \/ SawFinish

\* the channel may deliver a datagram or not: no fairness
SawSpec == SawInit /\ [][SawNext]_vars

(* ---------------- claims ---------------- *)

\* C1: whenever state 1 is entered to originate a new segment, the number of
\* outstanding entries does not exceed floor(cwnd).
C1_WindowBound ==
    (pc = "loop" /\ state = 1) => Len(outstanding) <= Floor(cwnd)

\* C2: an ACK for a number that was sent and is no longer in the outstanding
\* dictionary changes neither the dictionary nor estimated_rtt, dev_rtt, timeout,
\* cwnd or ssthresh.
C2_DuplicateAckIgnored ==
    [][(/\ IsReceive
        /\ ~UnpackFails(Received)
        /\ UnpackSecond(Received) \in DOMAIN send_times
        /\ UnpackSecond(Received) \notin Keys(outstanding))
       => UNCHANGED <<outstanding, estimated_rtt, dev_rtt, timeout, cwnd, ssthresh>>]_vars

\* C3: a well-formed ACK for a number that was never sent does not end the
\* session: the loop keeps running.
C3_UnknownAckNoAbort ==
    [][(/\ IsReceive
        /\ ~UnpackFails(Received)
        /\ UnpackSecond(Received) \notin DOMAIN send_times)
       => pc' = "loop"]_vars

\* C4: a datagram shorter than 8 bytes is dropped: the session does not abort and
\* the dictionary, the congestion state and the timing state are unchanged.
C4_ShortDatagramDropped ==
    [][(IsReceive /\ Len(Received) < 8)
       => /\ pc' = "loop"
          /\ UNCHANGED <<outstanding, cwnd, ssthresh, estimated_rtt, dev_rtt, timeout>>]_vars

\* C5: datasource.wait_for_data is never called twice with the same sequence
\* number.
C5_QueriedOnce ==
    \A i, j \in 1..Len(queried) : queried[i] = queried[j] => i = j

\* C6: every timeout sets ssthresh to max(1, cwnd // 2), cwnd to 1 and doubles
\* timeout; ssthresh >= 1 and cwnd >= 1 in every reachable state.
C6_TimeoutLossPath ==
    /\ [][IsTimeout => /\ ssthresh' = Max2(1, FloorHalf(cwnd))
                       /\ cwnd' = Rat(1)
                       /\ timeout' = RMul[Rat(2), timeout]]_vars
    /\ [](ssthresh >= 1 /\ RGeq(cwnd, Rat(1)))

\* C7: the keys of the outstanding dictionary are the sequence numbers sent minus
\* the sequence numbers whose ACK has been processed.
C7_LedgerKeys ==
    Keys(outstanding) = SentSeqnos \ acked

\* C7 witness: an ACK was processed, a segment was resent, and segments sent
\* before and after the acknowledged one are still outstanding.
C7_Witness ==
    /\ Len(wire) > seqno
    /\ \E a \in acked, k1, k2 \in Keys(outstanding) : k1 < a /\ a < k2

\* C8: desired_ackno is the smallest key of the outstanding dictionary, or seqno
\* when the dictionary is empty.
C8_DesiredIsOldest ==
    desired_ackno = IF Len(outstanding) = 0 THEN seqno ELSE SetMin(Keys(outstanding))

\* C8 witness: a segment that was not the oldest was acknowledged first, and the
\* oldest one is still outstanding next to a later one.
C8_Witness ==
    /\ desired_ackno \in Keys(outstanding)
    /\ \E a \in acked, k \in Keys(outstanding) : desired_ackno < a /\ a < k

\* C9: the sequence numbers sent are exactly 0..seqno-1 (one new number per newly
\* originated segment, none for a retransmission), every datagram sent under a
\* number carries that number's chunk, and seqno is the number of chunks when the
\* loop is left.
C9_Sequencing ==
    /\ SentSeqnos = 0..(seqno - 1)
    /\ \A i \in 1..Len(wire) : PktBody(wire[i]) = Payload(PktSeqno(wire[i]))
    /\ \A i \in 1..Len(wire) : \A j \in (i + 1)..Len(wire) :
          PktSeqno(wire[i]) = PktSeqno(wire[j]) => wire[i] = wire[j]
    /\ (pc = "done" => seqno = numChunks)

\* C9 witness: a session of three or more chunks that resent a segment has left
\* the loop.
C9_Witness ==
    pc = "done" /\ numChunks >= 3 /\ Len(wire) > numChunks

\* C10: on a lossy but fair channel that delivers only ACKs of sent segments, the
\* session leaves the loop, and it does so only when the data source is exhausted
\* and the outstanding dictionary is empty.
C10_Terminates ==
    /\ <>(pc = "done")
    /\ [](pc = "done" => /\ ~have_more_data
                         /\ seqno = numChunks
                         /\ Len(outstanding) = 0)

\* C10 witness: a session of two or more chunks has left the loop after a timeout
\* with its retransmission and a repeated ACK.
C10_Witness ==
    /\ pc = "done"
    /\ numChunks >= 2
    /\ nTimeouts >= 1
    /\ StaleCount >= 1

\* C11: every receive timeout doubles the stored timeout, which is positive and
\* therefore does not decrease, and leaves cwnd at 1; a step that is neither a
\* timeout nor a receive changes neither of them, so after K consecutive
\* timeouts with no ACK in between the timeout is 2^K times its value before
\* them and cwnd is 1.  (The double of n/d in lowest terms is n/(d/2) for an
\* even d and 2n/d for an odd d.)
C11_TimeoutBackoff ==
    [][/\ IsTimeout =>
            /\ timeout' = IF timeout.d % 2 = 0
                            THEN [n |-> timeout.n, d |-> timeout.d \div 2]
                            ELSE [n |-> 2 * timeout.n, d |-> timeout.d]
            /\ timeout.n > 0 /\ timeout.d > 0
            /\ cwnd' = [n |-> 1, d |-> 1]
       /\ (~IsTimeout /\ ~IsReceive) => UNCHANGED <<timeout, cwnd>>]_vars

\* C11 witness: two timeouts in a row, each with its retransmission, before any
\* ACK arrived; the timeout is four times the argument t.
C11_Witness ==
    /\ nTimeouts = 2
    /\ Len(rcvd) = 0
    /\ state = 2
    /\ Len(wire) = seqno + 2
    /\ \E t \in TArgs : timeout = [n |-> 4 * t, d |-> 1]
    /\ cwnd = [n |-> 1, d |-> 1]

\* C12: the delivery of an ACK number that was already delivered before, whatever
\* happened in between, removes nothing from the outstanding dictionary and
\* leaves cwnd, ssthresh and desired_ackno unchanged, and the session goes on.
C12_SecondDeliveryNoChange ==
    [][(/\ IsReceive
        /\ ~UnpackFails(Received)
        /\ UnpackSecond(Received) \in acked)
       => /\ UNCHANGED <<outstanding, cwnd, ssthresh, desired_ackno>>
          /\ pc' = "loop"]_vars

\* C12 witness: an ACK number was delivered, then a different one, then the first
\* one again, and the session is still running.
C12_Witness ==
    /\ pc = "loop"
    /\ \E i, j, k \in 1..Len(rcvd) :
          /\ i < j /\ j < k
          /\ ~UnpackFails(rcvd[i]) /\ ~UnpackFails(rcvd[j])
          /\ rcvd[i] = rcvd[k]
          /\ rcvd[j] /= rcvd[i]

C17_WindowGrowth ==
    [][LET processed == IsReceive /\ pc' = "loop"
           ackno == UnpackSecond(Received)
           matches == processed /\ ackno = desired_ackno
       IN  /\ matches =>
                /\ cwnd' = IF cwnd.n < ssthresh * cwnd.d
                             THEN [n |-> cwnd.n + cwnd.d, d |-> cwnd.d]
                             ELSE [n |-> cwnd.n * cwnd.n + cwnd.d * cwnd.d,
                                   d |-> cwnd.n * cwnd.d]
                /\ ssthresh' = ssthresh
           /\ ~matches => \/ cwnd' = cwnd
                          \/ cwnd' = [n |-> 1, d |-> 1] /\ cwnd.n >= cwnd.d
           /\ (processed /\ ackno /= desired_ackno /\ ackno \in Keys(outstanding)) =>
                /\ Keys(outstanding') = Keys(outstanding) \ {ackno}
                /\ UNCHANGED <<cwnd, ssthresh, desired_ackno>>]_vars

\* C17 witness: cwnd has grown by a fraction, and a segment sent after a
\* still-outstanding one has been acknowledged.
C17_Witness ==
    /\ pc = "loop"
    /\ cwnd.d > 1
    /\ \E a \in acked : \E k \in Keys(outstanding) : k < a

\* C18: whenever the machine is in state 3, the keys of the outstanding
\* dictionary are exactly the numbers from desired_ackno up to, not including,
\* seqno.
C18_ContiguousLedger ==
    (pc = "loop" /\ state = 3) =>
        Keys(outstanding) = desired_ackno..(seqno - 1)

\* C19: every step that puts a datagram on the wire, a retransmission included,
\* appends to the event log one send record that carries the sequence number
\* of that datagram and the time of the send.
C19_LogNamesSentSegment ==
    [][wire' /= wire =>
         tracelog' = Append(tracelog,
                            <<PktSeqno(wire'[Len(wire')]), now, 0, 0>>)]_vars

\* C20: whenever the loop is about to wait for an ACK in state 2, or is in
\* state 3, the outstanding dictionary is not empty and has desired_ackno among
\* its keys; no session ends with an exception raised in state 3.
C20_DesiredOutstanding ==
    /\ (Running /\ state \in {2, 3}) =>
          /\ Len(outstanding) > 0
          /\ desired_ackno \in Keys(outstanding)
    /\ (pc = "aborted" => state = 2)

\* C20 witness: state 3 is reached after a segment other than the oldest was
\* acknowledged and an ACK number was delivered twice.
C20_Witness ==
    /\ Running /\ state = 3
    /\ StaleCount >= 1
    /\ \E a \in acked : desired_ackno < a

\* C14: client_burst1 with a burst size n >= 1 sleeps exactly before the sends
\* whose sequence number is a multiple of n, so the segments of one burst, n
\* consecutive numbers, are sent at the same clock reading and the bursts are t
\* apart; it never receives a datagram, sends chunk k as the k-th datagram and
\* never again, and leaves the loop, with every chunk sent once.
C14_Bursts ==
    /\ [](args.n >= 1 =>
            LET decided == IF pc = "loop" /\ state = 2 THEN seqno + 1 ELSE seqno
            IN  /\ rcvd = <<>>
                /\ \A i \in 1..Len(wire) : wire[i] = Pack(i - 1) \o Payload(i - 1)
                /\ \A i \in 1..Len(gaps) : gaps[i] = (i - 1) * args.n
                /\ Len(gaps) = (decided + args.n - 1) \div args.n
                /\ Len(tracelog) = Len(wire)
                /\ \A i \in 1..Len(tracelog) :
                      tracelog[i] =
                          <<i - 1, args.t * (((i - 1) \div args.n) + 1), 0, 0>>
                /\ Len(wire) = seqno
                /\ (pc = "done" => seqno = numChunks))
    /\ (args.n >= 1 => <>(pc = "done"))

\* C14 witness: a session of seven chunks in bursts of three has ended after
\* gaps before segments 0, 3 and 6.
C14_Witness ==
    /\ pc = "done"
    /\ args.n = 3
    /\ numChunks = 7
    /\ gaps = <<0, 3, 6>>
    /\ Len(wire) = 7

\* C15: while client_saw has received fewer datagrams than it has sent data
\* packets, it is in state 2 inside the loop, and the only step it can take is
\* the receipt of a datagram: without one it sends nothing, does not advance
\* and does not leave the loop.
C15_SawDeadlock ==
    /\ [](Len(rcvd) < Len(wire) => (pc = "loop" /\ have_more_data /\ state = 2))
    /\ [][(Len(rcvd) < Len(wire) /\ ~IsReceive) =>
             UNCHANGED <<pc, state, seqno, wire, have_more_data>>]_vars

\* C15 witness: segments 0 and 1 were acknowledged, segment 2 is sent and no
\* third datagram has arrived.
C15_Witness ==
    /\ pc = "loop" /\ state = 2
    /\ numChunks >= 3
    /\ Len(wire) = 3
    /\ Len(rcvd) = 2

\* C16 as stated: client_saw originates segment k+1 only after it received the
\* ACK numbered k, as the Tahoe machine with cwnd held at 1 would.
C16_AdvanceOnMatchingAck ==
    \A i \in 1..Len(wire) :
        PktSeqno(wire[i]) > 0 =>
            \E j \in 1..Len(rcvd) :
                /\ ~UnpackFails(rcvd[j])
                /\ UnpackSecond(rcvd[j]) = PktSeqno(wire[i]) - 1

\* C16: client_saw keeps one segment in flight and originates the chunks in
\* order, once each, but it ignores the numbers in the ACKs: seqno is the number
\* of 8-byte datagrams received, whatever their numbers, and the i-th log
\* record pairs segment i-1 with the number of the i-th datagram.
C16_AdvanceOnAnyAck ==
    /\ \A i \in 1..Len(wire) : wire[i] = Pack(i - 1) \o Payload(i - 1)
    /\ seqno = Cardinality({j \in 1..Len(rcvd) : ~UnpackFails(rcvd[j])})
    /\ Len(wire) \in {seqno, seqno + 1}
    /\ Len(tracelog) = seqno
    /\ \A i \in 1..Len(tracelog) :
          /\ tracelog[i][1] = i - 1
          /\ tracelog[i][3] = UnpackSecond(rcvd[i])

\* C16 witness: segment 2 was originated although one of the two ACKs received
\* did not carry the number of the segment then in flight.
C16_Witness ==
    /\ pc = "loop"
    /\ Len(wire) = 3
    /\ Len(rcvd) = 2
    /\ \E j \in 1..Len(rcvd) :
          ~UnpackFails(rcvd[j]) /\ UnpackSecond(rcvd[j]) /= j - 1

====
